---- MODULE Spec2Model ----
(***************************************************************************)
(* Model of src/mypackage/__init__.py: the command-line run that fetches   *)
(* a repository summary (get_github_data, print_github_data) and, when     *)
(* --branch is given, builds and writes the commit graph of a merged       *)
(* branch (create_commit_graph, get_commits_for_branch, get_parent_commit).*)
(* The GitHub API is the environment: every request is answered by a       *)
(* status (200 or not) and, on 200, a payload drawn from a bounded set.    *)
(* An uncaught Python exception ends the run in pc = "fault".              *)
(***************************************************************************)
EXTENDS Integers, Sequences, FiniteSets, TLC

VARIABLES pc, fault, reqLog, branch,
          releases, forks_count, stargazers_count, contributors_count,
          pulls, pulls_count, github_data, printed,
          pull_requests, pr, commits, merged_commit_hash,
          graph, output_file

vars == <<pc, fault, reqLog, branch,
          releases, forks_count, stargazers_count, contributors_count,
          pulls, pulls_count, github_data, printed,
          pull_requests, pr, commits, merged_commit_hash,
          graph, output_file>>

summaryVars == <<releases, forks_count, stargazers_count, contributors_count,
                 pulls, pulls_count, github_data, printed>>

graphVars == <<pull_requests, pr, commits, merged_commit_hash, graph, output_file>>

----------------------------------------------------------------------------
(* Bounds of the payloads the API may return.                              *)
MaxReleases == 4
MaxContributors == 2
MaxPulls == 5
MaxPRs == 3
MaxCommits == 3
(* Bound of every payload in the whole-run specification Spec.             *)
MainBound == 1

(* Python's None, and the value domains of the payload fields. Commit     *)
(* hashes, merge hashes and pull numbers are distinct by position. The     *)
(* commits of a listing carry one two-line message; the message of the     *)
(* fetched anchor ranges over Messages, the empty one included. The        *)
(* commits_url of the even-numbered pull requests ends in "{/sha}".        *)
Null == "None"
Counts == {0, 7}
Logins == {"A", "B", "C"}
BranchName == "b"
HeadRefs == {"b", "x"}
Messages == {<<>>, <<"s", "\n", "b">>}
ListedMessage == <<"s", "\n", "b">>
AnchorParents == {<<>>, <<"P">>}
ShaNames == <<"C1", "C2", "C3", "C4", "C5">>
MergeShaNames == <<"M1", "M2", "M3", "M4">>
PullNumbers == <<"1", "2", "3", "4">>

Min(a, b) == IF a < b THEN a ELSE b

(* Python truthiness of an optional string (None and "" are falsy).        *)
Truthy(s) == s # Null /\ s # ""

(* The i-th..j-th elements; s[:n] is Slice(s, n).                          *)
Slice(s, n) == SubSeq(s, 1, Min(n, Len(s)))

Entry(kind, url, ok) == [kind |-> kind, url |-> url, ok |-> ok]

----------------------------------------------------------------------------
(* Payload domains.                                                        *)
ReleasePayloads(max) == {[i \in 1..n |-> i] : n \in 0..max}

RepoInfoPayloads ==
    UNION {[K -> Counts] : K \in SUBSET {"forks_count", "stargazers_count"}}

ContributorPayloads(max) == {[i \in 1..n |-> i] : n \in 0..max}

PullPayloads(max) == UNION {[1..n -> Logins] : n \in 0..max}

PullRequestsAt(i) ==
    {[number |-> PullNumbers[i], head_ref |-> r, merged_at |-> m,
      merge_commit_sha |-> s, commits_url |-> u] :
        r \in HeadRefs, m \in {Null, "t"}, s \in {Null, MergeShaNames[i]},
        u \in {IF i % 2 = 1
               THEN <<"pulls", PullNumbers[i], "commits">>
               ELSE <<"pulls", PullNumbers[i], "commits", "{/sha}">>}}

RECURSIVE PullRequestListsOfLen(_)
PullRequestListsOfLen(k) ==
    IF k = 0 THEN {<<>>}
    ELSE {Append(l, p) : l \in PullRequestListsOfLen(k - 1), p \in PullRequestsAt(k)}

PullRequestPayloads(max) == UNION {PullRequestListsOfLen(k) : k \in 0..max}

ParentChoices(i) ==
    LET prev == IF i = 1 THEN "A" ELSE ShaNames[i - 1]
    IN  {<<>>, <<prev>>, <<"X">>, <<prev, "X">>, <<"X", prev>>}

CommitsAt(i) ==
    {[sha |-> ShaNames[i], parents |-> ps, message |-> ListedMessage] :
        ps \in ParentChoices(i)}

RECURSIVE CommitListsOfLen(_)
CommitListsOfLen(k) ==
    IF k = 0 THEN {<<>>}
    ELSE {Append(l, c) : l \in CommitListsOfLen(k - 1), c \in CommitsAt(k)}

CommitPayloads(max) == UNION {CommitListsOfLen(k) : k \in 0..max}

(* The payload sets of the three specifications.                           *)
MainReleases == ReleasePayloads(MainBound)
MainContributors == ContributorPayloads(MainBound)
MainPulls == PullPayloads(MainBound)
MainPullRequests == PullRequestPayloads(MainBound)
MainCommits == CommitPayloads(MainBound)
SummaryReleases == ReleasePayloads(MaxReleases)
SummaryContributors == ContributorPayloads(MaxContributors)
SummaryPulls == PullPayloads(MaxPulls)
GraphPullRequests == PullRequestPayloads(MaxPRs)
GraphCommits == CommitPayloads(MaxCommits)

----------------------------------------------------------------------------
(* Pure helpers of get_github_data.                                        *)

(* dict.get(key, default) *)
Get(d, k, default) == IF k \in DOMAIN d THEN d[k] ELSE default

(* The tally loop: a dict in insertion order, as a sequence of pairs.      *)
RECURSIVE Bump(_, _)
Bump(items, user) ==
    IF items = <<>> THEN <<>>
    ELSE IF Head(items)[1] = user
         THEN <<<<user, Head(items)[2] + 1>>>> \o Tail(items)
         ELSE <<Head(items)>> \o Bump(Tail(items), user)

RECURSIVE Tally(_)
Tally(ps) ==
    IF ps = <<>> THEN <<>>
    ELSE LET t == Tally(SubSeq(ps, 1, Len(ps) - 1))
             user == ps[Len(ps)]
         IN  IF \E i \in 1..Len(t) : t[i][1] = user
             THEN Bump(t, user)
             ELSE Append(t, <<user, 1>>)

(* An unstable descending sort: an item passes the items of equal count.  *)
RECURSIVE InsertDesc_Unstable(_, _)
InsertDesc_Unstable(sorted, item) ==
    IF sorted = <<>> THEN <<item>>
    ELSE IF Head(sorted)[2] > item[2]
         THEN <<Head(sorted)>> \o InsertDesc_Unstable(Tail(sorted), item)
         ELSE <<item>> \o sorted

(* sorted(items, key=count, reverse=True): stable, descending.             *)
RECURSIVE InsertDesc(_, _)
InsertDesc(sorted, item) ==
    IF sorted = <<>> THEN <<item>>
    ELSE IF Head(sorted)[2] >= item[2]
         THEN <<Head(sorted)>> \o InsertDesc(Tail(sorted), item)
         ELSE <<item>> \o sorted

RECURSIVE SortedByCountDesc(_)
SortedByCountDesc(items) ==
    IF items = <<>> THEN <<>>
    ELSE InsertDesc(SortedByCountDesc(SubSeq(items, 1, Len(items) - 1)),
                    items[Len(items)])

----------------------------------------------------------------------------
Init ==
    /\ pc = "releases"
    /\ fault = Null
    /\ reqLog = <<>>
    /\ branch \in {Null, "", BranchName}
    /\ releases = <<>>
    /\ forks_count = 0
    /\ stargazers_count = 0
    /\ contributors_count = 0
    /\ pulls = <<>>
    /\ pulls_count = 0
    /\ github_data = <<>>
    /\ printed = <<>>
    /\ pull_requests = <<>>
    /\ pr = <<>>
    /\ commits = <<>>
    /\ merged_commit_hash = Null
    /\ graph = [nodes |-> <<>>, edges |-> <<>>]
    /\ output_file = <<>>

----------------------------------------------------------------------------
(* get_github_data                                                         *)

FetchReleases(payloads) ==
    /\ pc = "releases"
    /\ \E ok \in BOOLEAN :
         /\ reqLog' = Append(reqLog, Entry("releases", <<"releases">>, ok))
         /\ IF ok
            THEN \E payload \in payloads : releases' = Slice(payload, 3)
            ELSE releases' = <<>>
    /\ pc' = "repo"
    /\ UNCHANGED <<fault, branch, forks_count, stargazers_count, contributors_count,
                   pulls, pulls_count, github_data, printed, graphVars>>

FetchRepoInfo ==
    /\ pc = "repo"
    /\ \E ok \in BOOLEAN :
         /\ reqLog' = Append(reqLog, Entry("repo", <<>>, ok))
         /\ IF ok
            THEN \E repo_info \in RepoInfoPayloads :
                   /\ forks_count' = Get(repo_info, "forks_count", 0)
                   /\ stargazers_count' = Get(repo_info, "stargazers_count", 0)
            ELSE /\ forks_count' = 0
                 /\ stargazers_count' = 0
    /\ pc' = "contributors"
    /\ UNCHANGED <<fault, branch, releases, contributors_count,
                   pulls, pulls_count, github_data, printed, graphVars>>

FetchContributors(payloads) ==
    /\ pc = "contributors"
    /\ \E ok \in BOOLEAN :
         /\ reqLog' = Append(reqLog, Entry("contributors", <<"contributors">>, ok))
         /\ IF ok
            THEN \E contributors \in payloads :
                   contributors_count' = Len(contributors)
            ELSE contributors_count' = 0
    /\ pc' = "pulls"
    /\ UNCHANGED <<fault, branch, releases, forks_count, stargazers_count,
                   pulls, pulls_count, github_data, printed, graphVars>>

(* pulls is an option: <<>> while the local is unbound, <<list>> once set. *)
FetchPulls(payloads) ==
    /\ pc = "pulls"
    /\ \E ok \in BOOLEAN :
         /\ reqLog' = Append(reqLog, Entry("pulls", <<"pulls?state=all">>, ok))
         /\ IF ok
            THEN \E payload \in payloads :
                   /\ pulls' = <<payload>>
                   /\ pulls_count' = Len(payload)
            ELSE /\ pulls' = pulls
                 /\ pulls_count' = 0
    /\ pc' = "tally"
    /\ UNCHANGED <<fault, branch, releases, forks_count, stargazers_count,
                   contributors_count, github_data, printed, graphVars>>

TallyAndReturn ==
    /\ pc = "tally"
    /\ IF pulls = <<>>
       THEN /\ fault' = "UnboundLocalError:pulls"
            /\ pc' = "fault"
            /\ UNCHANGED github_data
       ELSE /\ github_data' =
                 <<[releases |-> releases,
                    forks_count |-> forks_count,
                    stargazers_count |-> stargazers_count,
                    contributors_count |-> contributors_count,
                    pulls_count |-> pulls_count,
                    contributors_pulls_sorted |-> SortedByCountDesc(Tally(pulls[1]))]>>
            /\ pc' = "print"
            /\ UNCHANGED fault
    /\ UNCHANGED <<reqLog, branch, releases, forks_count, stargazers_count,
                   contributors_count, pulls, pulls_count, printed, graphVars>>

(* The summary printed only in a run without --branch.                     *)
PrintGithubData_Deferred ==
    /\ pc = "print"
    /\ printed' = IF Truthy(branch) THEN printed ELSE github_data
    /\ pc' = IF Truthy(branch) THEN "list_prs" ELSE "done"
    /\ UNCHANGED <<fault, reqLog, branch, releases, forks_count, stargazers_count,
                   contributors_count, pulls, pulls_count, github_data, graphVars>>

(* print_github_data, then the test on args.branch.                        *)
PrintGithubData ==
    /\ pc = "print"
    /\ printed' = github_data
    /\ pc' = IF Truthy(branch) THEN "list_prs" ELSE "done"
    /\ UNCHANGED <<fault, reqLog, branch, releases, forks_count, stargazers_count,
                   contributors_count, pulls, pulls_count, github_data, graphVars>>

----------------------------------------------------------------------------
(* Pure helpers of the graph pipeline.                                     *)

(* The first pull request of the listing, in API order, whose head.ref is  *)
(* the branch and whose merged_at is set; 0 when the for loop runs out.    *)
Matches_IgnoreMerged(p, branch_name) == p.head_ref = branch_name

Matches(p, branch_name) == p.head_ref = branch_name /\ Truthy(p.merged_at)

(* The scan keeping the last match instead of returning at the first.     *)
FirstMatch_Last(prs, branch_name) ==
    IF \E i \in 1..Len(prs) : Matches(prs[i], branch_name)
    THEN CHOOSE i \in 1..Len(prs) :
            /\ Matches(prs[i], branch_name)
            /\ \A j \in (i + 1)..Len(prs) : ~Matches(prs[j], branch_name)
    ELSE 0

FirstMatch(prs, branch_name) ==
    IF \E i \in 1..Len(prs) : Matches(prs[i], branch_name)
    THEN CHOOSE i \in 1..Len(prs) :
            /\ Matches(prs[i], branch_name)
            /\ \A j \in 1..(i - 1) : ~Matches(prs[j], branch_name)
    ELSE 0

(* commits_url.replace("{/sha}", ""), on a URL kept as its segments.       *)
StripTemplate(url) == SelectSeq(url, LAMBDA seg : seg # "{/sha}")

(* str.splitlines() on a string kept as its characters.                    *)
RECURSIVE SplitLines(_)
SplitLines(s) ==
    IF s = <<>> THEN <<>>
    ELSE IF \E i \in 1..Len(s) : s[i] = "\n"
         THEN LET i == CHOOSE k \in 1..Len(s) :
                          s[k] = "\n" /\ \A j \in 1..(k - 1) : s[j] # "\n"
              IN  <<SubSeq(s, 1, i - 1)>> \o SplitLines(SubSeq(s, i + 1, Len(s)))
         ELSE <<s>>

(* The null placeholder get_parent_commit returns on a failed fetch.       *)
NoneCommit == [none |-> TRUE]
IsNone(c) == "none" \in DOMAIN c

(* The first commit at which the node loop (lines 189-192) raises.         *)
FirstBadCommit(cs) ==
    LET Bad(i) == IsNone(cs[i]) \/ SplitLines(cs[i].message) = <<>>
    IN  IF \E i \in 1..Len(cs) : Bad(i)
        THEN CHOOSE i \in 1..Len(cs) : Bad(i) /\ \A j \in 1..(i - 1) : ~Bad(j)
        ELSE 0

CommitNodes(cs) ==
    [i \in 1..Len(cs) |->
        [name |-> cs[i].sha, label |-> SplitLines(cs[i].message)[1]]]

(* The parent edges without the test "parent_sha in nodes".                *)
EdgesOfCommit_NoGuard(c, nodes) ==
    [k \in 1..Len(c.parents) |-> <<c.parents[k], c.sha>>]

(* Lines 211-216: the edges into one commit, from its parents in nodes.    *)
EdgesOfCommit(c, nodes) ==
    LET known == SelectSeq(c.parents, LAMBDA p : p \in nodes)
    IN  [k \in 1..Len(known) |-> <<known[k], c.sha>>]

RECURSIVE ParentEdges(_, _)
ParentEdges(cs, nodes) ==
    IF cs = <<>> THEN <<>>
    ELSE EdgesOfCommit(Head(cs), nodes) \o ParentEdges(Tail(cs), nodes)

(* Lines 195-205: the merge node and the edge from the last commit.        *)
MergedNode(hash) ==
    IF Truthy(hash) THEN <<[name |-> hash, label |-> <<"Merged Commit: ">>]>> ELSE <<>>

(* The edge into the merge node drawn from the first commit of the list.  *)
EdgeToMerged_First(cs, nodes, hash) ==
    IF Truthy(hash) /\ cs[1].sha \in nodes
    THEN <<<<cs[1].sha, hash>>>>
    ELSE <<>>

EdgeToMerged(cs, nodes, hash) ==
    IF Truthy(hash) /\ cs[Len(cs)].sha \in nodes
    THEN <<<<cs[Len(cs)].sha, hash>>>>
    ELSE <<>>

----------------------------------------------------------------------------
(* get_commits_for_branch, as called by create_commit_graph                *)

ListPullRequests(payloads) ==
    /\ pc = "list_prs"
    /\ \E ok \in BOOLEAN :
         /\ reqLog' = Append(reqLog,
                Entry("closed_pulls",
                      <<"pulls", "state=closed", "base=master", "per_page=100">>, ok))
         /\ IF ok
            THEN \E payload \in payloads :
                   LET i == FirstMatch(payload, branch)
                   IN  /\ pull_requests' = payload
                       /\ pr' = IF i = 0 THEN <<>> ELSE <<payload[i]>>
                       /\ pc' = IF i = 0 THEN "done" ELSE "commits"
            ELSE /\ pc' = "done"
                 /\ UNCHANGED <<pull_requests, pr>>
    /\ UNCHANGED <<fault, branch, summaryVars, commits, merged_commit_hash,
                   graph, output_file>>

(* A failed commits fetch tried a second time.                             *)
FetchCommits_Retry(payloads) ==
    /\ pc = "commits"
    /\ \E ok \in BOOLEAN :
         /\ reqLog' =
              IF ok
              THEN Append(reqLog, Entry("pr_commits", StripTemplate(pr[1].commits_url), ok))
              ELSE reqLog \o <<Entry("pr_commits", StripTemplate(pr[1].commits_url), FALSE),
                               Entry("pr_commits", StripTemplate(pr[1].commits_url), FALSE)>>
         /\ IF ok
            THEN \E payload \in payloads :
                   /\ commits' = payload
                   /\ merged_commit_hash' =
                        IF Truthy(pr[1].merge_commit_sha)
                        THEN pr[1].merge_commit_sha ELSE Null
                   /\ pc' = IF payload = <<>> THEN "done" ELSE "parent"
                   /\ pull_requests' = IF payload = <<>> THEN pull_requests ELSE <<>>
            ELSE /\ pc' = "done"
                 /\ UNCHANGED <<commits, merged_commit_hash, pull_requests>>
    /\ UNCHANGED <<fault, branch, summaryVars, pr, graph, output_file>>

(* The listing is read by nothing once commits are returned; it is reset   *)
(* there (and kept on the paths that end the run).                         *)
FetchCommits(payloads) ==
    /\ pc = "commits"
    /\ \E ok \in BOOLEAN :
         /\ reqLog' = Append(reqLog,
                Entry("pr_commits", StripTemplate(pr[1].commits_url), ok))
         /\ IF ok
            THEN \E payload \in payloads :
                   /\ commits' = payload
                   /\ merged_commit_hash' =
                        IF Truthy(pr[1].merge_commit_sha)
                        THEN pr[1].merge_commit_sha ELSE Null
                   /\ pc' = IF payload = <<>> THEN "done" ELSE "parent"
                   /\ pull_requests' = IF payload = <<>> THEN pull_requests ELSE <<>>
            ELSE /\ pc' = "done"
                 /\ UNCHANGED <<commits, merged_commit_hash, pull_requests>>
    /\ UNCHANGED <<fault, branch, summaryVars, pr, graph, output_file>>

(* get_parent_commit and line 182.                                         *)
GetParentCommit ==
    /\ pc = "parent"
    /\ IF commits[1].parents = <<>>
       THEN /\ fault' = "IndexError:parents"
            /\ pc' = "fault"
            /\ UNCHANGED <<reqLog, commits>>
       ELSE /\ \E ok \in BOOLEAN :
                 /\ reqLog' = Append(reqLog,
                        Entry("commit", <<"commits", commits[1].parents[1]>>, ok))
                 /\ IF ok
                    THEN \E ps \in AnchorParents, m \in Messages :
                           commits' = <<[sha |-> commits[1].parents[1],
                                         parents |-> ps, message |-> m]>> \o commits
                    ELSE commits' = <<NoneCommit>> \o commits
            /\ pc' = "build"
            /\ UNCHANGED fault
    /\ UNCHANGED <<branch, summaryVars, pull_requests, pr, merged_commit_hash,
                   graph, output_file>>

(* create_commit_graph, lines 184-221.                                     *)
BuildGraph ==
    /\ pc = "build"
    /\ LET bad == FirstBadCommit(commits)
       IN  IF bad # 0
           THEN /\ fault' = IF IsNone(commits[bad])
                            THEN "TypeError:commit" ELSE "IndexError:message"
                /\ pc' = "fault"
                /\ graph' = [nodes |-> CommitNodes(SubSeq(commits, 1, bad - 1)),
                             edges |-> <<>>]
           ELSE LET nodes == {commits[i].sha : i \in 1..Len(commits)}
                    built == [nodes |-> CommitNodes(commits) \o MergedNode(merged_commit_hash),
                              edges |-> EdgeToMerged(commits, nodes, merged_commit_hash)
                                        \o ParentEdges(commits, nodes)]
                IN  IF Truthy(merged_commit_hash)
                    THEN /\ graph' = [built EXCEPT !.edges =
                                        Append(@, <<commits[1].sha, merged_commit_hash>>)]
                         /\ pc' = "write"
                         /\ UNCHANGED fault
                    ELSE /\ graph' = built
                         /\ fault' = "UnboundLocalError:merged_node"
                         /\ pc' = "fault"
    /\ UNCHANGED <<reqLog, branch, summaryVars, pull_requests, pr, commits,
                   merged_commit_hash, output_file>>

WriteGraph ==
    /\ pc = "write"
    /\ output_file' = <<graph>>
    /\ pc' = "done"
    /\ UNCHANGED <<fault, reqLog, branch, summaryVars, pull_requests, pr, commits,
                   merged_commit_hash, graph>>

----------------------------------------------------------------------------
(* The whole run (__main__), with every payload bounded by MainBound.      *)
Next ==
    \/ FetchReleases(MainReleases)
    \/ FetchRepoInfo
    \/ FetchContributors(MainContributors)
    \/ FetchPulls(MainPulls)
    \/ TallyAndReturn
    \/ PrintGithubData
    \/ ListPullRequests(MainPullRequests)
    \/ FetchCommits(MainCommits)
    \/ GetParentCommit
    \/ BuildGraph
    \/ WriteGraph

Spec == Init /\ [][Next]_vars

(* get_github_data and print_github_data alone: a run without --branch.    *)
InitSummary == Init /\ branch = Null

NextSummary ==
    \/ FetchReleases(SummaryReleases)
    \/ FetchRepoInfo
    \/ FetchContributors(SummaryContributors)
    \/ FetchPulls(SummaryPulls)
    \/ TallyAndReturn
    \/ PrintGithubData

SpecSummary == InitSummary /\ [][NextSummary]_vars

(* create_commit_graph alone: the run from the test on args.branch, after  *)
(* a summary whose four fetches returned 200 with empty payloads.          *)
EmptySummary ==
    [releases |-> <<>>, forks_count |-> 0, stargazers_count |-> 0,
     contributors_count |-> 0, pulls_count |-> 0, contributors_pulls_sorted |-> <<>>]

InitGraph ==
    /\ pc = "list_prs"
    /\ fault = Null
    /\ reqLog = <<Entry("releases", <<"releases">>, TRUE),
                  Entry("repo", <<>>, TRUE),
                  Entry("contributors", <<"contributors">>, TRUE),
                  Entry("pulls", <<"pulls?state=all">>, TRUE)>>
    /\ branch = BranchName
    /\ releases = <<>>
    /\ forks_count = 0
    /\ stargazers_count = 0
    /\ contributors_count = 0
    /\ pulls = <<<<>>>>
    /\ pulls_count = 0
    /\ github_data = <<EmptySummary>>
    /\ printed = <<EmptySummary>>
    /\ pull_requests = <<>>
    /\ pr = <<>>
    /\ commits = <<>>
    /\ merged_commit_hash = Null
    /\ graph = [nodes |-> <<>>, edges |-> <<>>]
    /\ output_file = <<>>

NextGraph ==
    \/ ListPullRequests(GraphPullRequests)
    \/ FetchCommits(GraphCommits)
    \/ GetParentCommit
    \/ BuildGraph
    \/ WriteGraph

SpecGraph == InitGraph /\ [][NextGraph]_vars

----------------------------------------------------------------------------
(* Vocabulary of the properties.                                           *)
GraphKinds == {"closed_pulls", "pr_commits", "commit"}
RequestOrder == <<"releases", "repo", "contributors", "pulls",
                  "closed_pulls", "pr_commits", "commit">>
HasReq(kind) == \E i \in 1..Len(reqLog) : reqLog[i].kind = kind
OkReq(kind) == \E i \in 1..Len(reqLog) : reqLog[i].kind = kind /\ reqLog[i].ok
FailedReq(kind) == \E i \in 1..Len(reqLog) : reqLog[i].kind = kind /\ ~reqLog[i].ok
LastReqIs(kind, ok) ==
    /\ reqLog # <<>>
    /\ reqLog[Len(reqLog)].kind = kind
    /\ reqLog[Len(reqLog)].ok = ok

(* A pull request of the branch that was merged, stated on the payload.    *)
MergedPullFor(p, name) == p.head_ref = name /\ p.merged_at # Null
FirstMergedPull(prs, name) ==
    IF \E i \in 1..Len(prs) : MergedPullFor(prs[i], name)
    THEN CHOOSE i \in 1..Len(prs) :
            /\ MergedPullFor(prs[i], name)
            /\ \A j \in 1..(i - 1) : ~MergedPullFor(prs[j], name)
    ELSE 0

WrittenNames == {output_file[1].nodes[i].name : i \in 1..Len(output_file[1].nodes)}
WrittenEdges == {output_file[1].edges[i] : i \in 1..Len(output_file[1].edges)}
CommitShas == {commits[i].sha : i \in 1..Len(commits)}

----------------------------------------------------------------------------
(* C1: when the closed-pull-request listing is fetched with status 200 and *)
(* holds no pull request of the branch with a merged_at, the pipeline has  *)
(* returned None: the run is over without a fault, the listing is the last *)
(* request issued, no commits were fetched and no graph file is written.   *)
C1_NoMergedPullNoGraph ==
    (/\ LastReqIs("closed_pulls", TRUE)
     /\ \A i \in 1..Len(pull_requests) : ~MergedPullFor(pull_requests[i], branch))
    => /\ pc = "done"
       /\ fault = Null
       /\ ~HasReq("pr_commits") /\ ~HasReq("commit")
       /\ commits = <<>>
       /\ output_file = <<>>
       /\ ~ENABLED NextGraph

C1_Witness ==
    /\ LastReqIs("closed_pulls", TRUE)
    /\ Len(pull_requests) >= 2
    /\ \A i \in 1..Len(pull_requests) : ~MergedPullFor(pull_requests[i], branch)
    /\ \E i \in 1..Len(pull_requests) :
         pull_requests[i].head_ref = branch /\ pull_requests[i].merged_at = Null
    /\ \E i \in 1..Len(pull_requests) :
         pull_requests[i].head_ref # branch /\ pull_requests[i].merged_at # Null
    /\ pc = "done"
    /\ output_file = <<>>

(* C2: in every graph written to the file, the nodes are the commits of    *)
(* the anchor-extended sequence and the merge node, both endpoints of      *)
(* every edge are nodes, and for every commit and every declared parent    *)
(* the edge parent -> commit is present exactly when the parent is the     *)
(* hash of a commit of the sequence.                                       *)
C2_EdgesWithinNodes ==
    output_file # <<>> =>
        /\ WrittenNames = CommitShas \cup {merged_commit_hash}
        /\ \A e \in WrittenEdges : e[1] \in WrittenNames /\ e[2] \in WrittenNames
        /\ \A i \in 1..Len(commits) : \A k \in 1..Len(commits[i].parents) :
             (<<commits[i].parents[k], commits[i].sha>> \in WrittenEdges)
                <=> (commits[i].parents[k] \in CommitShas)

C2_Witness ==
    /\ output_file # <<>>
    /\ \E i \in 1..Len(commits) : \E k \in 1..Len(commits[i].parents) :
         /\ commits[i].parents[k] \notin CommitShas
         /\ <<commits[i].parents[k], commits[i].sha>> \notin WrittenEdges
    /\ \E i \in 2..Len(commits) : \E k \in 1..Len(commits[i].parents) :
         <<commits[i].parents[k], commits[i].sha>> \in WrittenEdges

(* C3: for the linear chain C1, C2, C3 with the fetched anchor A (first    *)
(* parent of C1) and merge hash M, the written graph has the nodes A, C1,  *)
(* C2, C3, M and the edges A->C1, C1->C2, C2->C3, C3->M and A->M.          *)
ChainWritten ==
    /\ output_file # <<>>
    /\ Len(commits) = 4
    /\ commits[1].sha = "A"
    /\ commits[2].sha = "C1" /\ commits[2].parents = <<"A">>
    /\ commits[3].sha = "C2" /\ commits[3].parents = <<"C1">>
    /\ commits[4].sha = "C3" /\ commits[4].parents = <<"C2">>
    /\ Truthy(merged_commit_hash)

C3_LinearChainGraph ==
    ChainWritten =>
        /\ WrittenNames = {"A", "C1", "C2", "C3", merged_commit_hash}
        /\ {<<"A", "C1">>, <<"C1", "C2">>, <<"C2", "C3">>,
            <<"C3", merged_commit_hash>>, <<"A", merged_commit_hash>>}
              \subseteq WrittenEdges
        /\ Len(output_file[1].edges) = 5

C3_Witness == ChainWritten /\ Len(output_file[1].edges) = 5

(* C4: get_github_data never raises, and the record it returns holds the   *)
(* fallback of every fetch that failed: no releases, forks and stars 0,    *)
(* contributors count 0, pull-request count 0 with an empty ranking.       *)
C4_FallbackOnEveryFailure ==
    /\ fault = Null
    /\ pc \in {"print", "done"} =>
         /\ github_data # <<>>
         /\ FailedReq("releases") => github_data[1].releases = <<>>
         /\ FailedReq("repo") =>
              github_data[1].forks_count = 0 /\ github_data[1].stargazers_count = 0
         /\ FailedReq("contributors") => github_data[1].contributors_count = 0
         /\ FailedReq("pulls") =>
              /\ github_data[1].pulls_count = 0
              /\ github_data[1].contributors_pulls_sorted = <<>>

(* C5: the returned ranking holds every author login of the fetched pull   *)
(* requests exactly once, with the number of pull requests of that login,  *)
(* by count descending, equal counts in the order of first appearance.     *)
C5_StableRanking ==
    github_data # <<>> =>
        LET R == github_data[1].contributors_pulls_sorted
            P == pulls[1]
            Count(u) == Cardinality({k \in 1..Len(P) : P[k] = u})
            FirstSeen(u) == CHOOSE k \in 1..Len(P) :
                              P[k] = u /\ \A j \in 1..(k - 1) : P[j] # u
        IN  /\ {R[i][1] : i \in 1..Len(R)} = {P[k] : k \in 1..Len(P)}
            /\ \A i \in 1..Len(R) : R[i][2] = Count(R[i][1])
            /\ \A i \in 1..Len(R) : \A j \in (i + 1)..Len(R) :
                 /\ R[i][1] # R[j][1]
                 /\ R[i][2] >= R[j][2]
                 /\ R[i][2] = R[j][2] => FirstSeen(R[i][1]) < FirstSeen(R[j][1])

C5_Witness ==
    /\ github_data # <<>>
    /\ pulls = <<<<"A", "B", "C", "B", "A">>>>
    /\ github_data[1].contributors_pulls_sorted = <<<<"A", 2>>, <<"B", 2>>, <<"C", 1>>>>

(* C6: once the graph pipeline has started (a request of it was issued, it *)
(* faulted or wrote the file), the summary has been printed, and what was  *)
(* printed is the record computed from the four summary fetches alone,     *)
(* whatever became of the graph pipeline.                                  *)
C6_SummaryPrintedBeforeGraph ==
    (\/ pc \in {"list_prs", "commits", "parent", "build", "write"}
     \/ \E i \in 1..Len(reqLog) : reqLog[i].kind \in GraphKinds
     \/ output_file # <<>>
     \/ pc = "done" /\ Truthy(branch))
    => /\ printed # <<>>
       /\ printed = github_data
       /\ printed[1].releases = releases
       /\ printed[1].forks_count = forks_count
       /\ printed[1].stargazers_count = stargazers_count
       /\ printed[1].contributors_count = contributors_count
       /\ printed[1].pulls_count = pulls_count

C6_Witness ==
    /\ FailedReq("closed_pulls") \/ FailedReq("pr_commits") \/ FailedReq("commit")
    /\ pc \in {"done", "fault"}
    /\ printed # <<>>
    /\ printed[1].pulls_count = 1
    /\ output_file = <<>>

(* C7: after a failed parent-commit fetch the anchor is the null           *)
(* placeholder and the pipeline goes on without an unhandled fault.        *)
C7_NullAnchorNoFault ==
    FailedReq("commit") => commits[1] = NoneCommit /\ fault = Null

(* C8: when the matched pull request has no merge-commit hash, and the     *)
(* anchor and every message are usable, the build adds no merge node and   *)
(* ends without an unhandled fault.                                        *)
C8_NoMergeHashNoFault ==
    (/\ pc \in {"write", "done", "fault"}
     /\ OkReq("commit")
     /\ ~Truthy(merged_commit_hash)
     /\ FirstBadCommit(commits) = 0)
    => /\ fault = Null
       /\ \A i \in 1..Len(graph.nodes) : graph.nodes[i].name \in CommitShas

(* C9: the requests of a run are issued in the one order releases, repo    *)
(* info, contributors, pulls, closed pull requests, commits of the pull    *)
(* request, parent commit, each at most once; the four summary requests    *)
(* are all issued whatever their statuses; a graph request after the first *)
(* is issued only when the one before it succeeded; the file is written    *)
(* only after the three graph requests succeeded.                          *)
C9_SequentialSingleAttempt ==
    /\ Len(reqLog) <= Len(RequestOrder)
    /\ \A i \in 1..Len(reqLog) : reqLog[i].kind = RequestOrder[i]
    /\ pc \notin {"releases", "repo", "contributors", "pulls"} => Len(reqLog) >= 4
    /\ \A i \in 6..Len(reqLog) : reqLog[i - 1].ok
    /\ output_file # <<>> =>
         /\ Len(reqLog) = 7
         /\ \A i \in 5..7 : reqLog[i].ok

C9_Witness ==
    /\ output_file # <<>>
    /\ Len(reqLog) = 7
    /\ ~reqLog[1].ok
    /\ ~reqLog[3].ok

(* C10: the pull request the function works on is the first one of the     *)
(* listing, in API order, of the branch with a merged_at; the one commits  *)
(* request goes to that pull request's commits URL and the merge hash is   *)
(* its merge_commit_sha; when that request fails the function returns no   *)
(* result, with no request to any later pull request.                      *)
C10_FirstMergedPullSelected ==
    /\ pull_requests # <<>> =>
         LET f == FirstMergedPull(pull_requests, branch)
         IN  pr = IF f = 0 THEN <<>> ELSE <<pull_requests[f]>>
    /\ Cardinality({i \in 1..Len(reqLog) : reqLog[i].kind = "pr_commits"}) <= 1
    /\ \A i \in 1..Len(reqLog) : reqLog[i].kind = "pr_commits" =>
         /\ pr # <<>>
         /\ reqLog[i].url = <<"pulls", pr[1].number, "commits">>
    /\ commits # <<>> => merged_commit_hash = pr[1].merge_commit_sha
    /\ FailedReq("pr_commits") =>
         /\ pc = "done"
         /\ LastReqIs("pr_commits", FALSE)
         /\ fault = Null
         /\ commits = <<>>
         /\ output_file = <<>>

C10_Witness ==
    /\ FailedReq("pr_commits")
    /\ Len(pull_requests) = 3
    /\ ~MergedPullFor(pull_requests[1], branch)
    /\ pr = <<pull_requests[2]>>
    /\ MergedPullFor(pull_requests[3], branch)
    /\ pc = "done"

====
